---------------------------- MODULE Spec2Model ----------------------------
(***************************************************************************)
(* Model of the term-compliance evaluator of criteria_1_3_pronoun.py       *)
(* (evaluate_conversation and its helpers is_self_reference and            *)
(* find_terms_in_text), and of the final result of tone_analysis.py.       *)
(*                                                                         *)
(* Text.  A Python string is modelled as a sequence of atoms; an atom is   *)
(* a run of Thai characters that no taxonomy boundary cuts.  The atoms are *)
(* written in Latin transcription:                                         *)
(*    lung, pa, na, aa      the four family terms (aa is also the first    *)
(*                          part of the monk self term aa+tama)            *)
(*    phi                   the forbidden term PHI_TERM (also the second   *)
(*                          part of the monk self term luang+phi)          *)
(*    than                  MONK_TERMS[0]                                  *)
(*    phra, khun, chao      MONK_TERMS[1] = phra+khun+chao; khun alone is  *)
(*                          the honorific prefix of PREFIXES               *)
(*    luang, pho, tama      the rest of the monk self terms                *)
(*    maichai               the negation marker of is_self_reference       *)
(*    khrap                 a word outside the taxonomy                    *)
(* "x in s" on strings is a search for a contiguous run of atoms,          *)
(* s.startswith(p) a prefix test, s1 + s2 concatenation.                   *)
(*                                                                         *)
(* Tokenizer.  pythainlp's word_tokenize and pos_tag are outside the       *)
(* repository.  An utterance is given together with the segmentation the   *)
(* tokenizer returns for it: a sequence of tokens [word, tag], whose words *)
(* concatenate to the raw text.                                            *)
(*                                                                         *)
(* Specifications.                                                         *)
(*    Spec         one evaluation, the tokenizer never raises              *)
(*    FairScan     one evaluation that is executed to its end              *)
(*    SpecTwo      two evaluations, their steps interleaved                *)
(*    SpecSegFail  one evaluation, the tokenizer raises on one utterance   *)
(*    SpecCaller   one evaluation, caller utterances with negated, split   *)
(*                 and embedded terms                                      *)
(*    SpecAgent    one evaluation, agent utterances with allowed, not      *)
(*                 allowed and forbidden occurrences, blank lines          *)
(*    SpecTone     one call of tone_analysis (tone_analysis.py)            *)
(***************************************************************************)
EXTENDS Integers, Sequences, FiniteSets, TLC

(***************************************************************************)
(* Taxonomy (module-level constants of the program)                        *)
(***************************************************************************)
FAMILY_TERMS == << <<"lung">>, <<"pa">>, <<"na">>, <<"aa">> >>

PHI_TERM == <<"phi">>

MONK_TERMS == << <<"than">>, <<"phra", "khun", "chao">> >>

MONK_SELF_TERMS == << <<"luang", "phi">>, <<"luang", "pho">>, <<"aa", "tama">> >>

ALL_TERMS == FAMILY_TERMS \o MONK_TERMS \o MONK_SELF_TERMS

PREFIXES == << <<"khun">> >>

\* The negation marker of the f-string in is_self_reference.
NEGATION == <<"maichai">>

\* The two speaker labels tested with startswith.
AGENT_LABEL == "Speaker 1:"

CALLER_LABEL == "Speaker 2:"

(***************************************************************************)
(* String and list helpers                                                 *)
(***************************************************************************)
\* The elements of a Python list.
Elems(list) == {list[k] : k \in 1..Len(list)}

\* needle in haystack, on strings: a contiguous occurrence.
IsSubstring(needle, haystack) ==
    \E k \in 0..(Len(haystack) - Len(needle)) :
        SubSeq(haystack, k + 1, k + Len(needle)) = needle

\* s.startswith(p)
StartsWith(s, p) ==
    /\ Len(p) <= Len(s)
    /\ SubSeq(s, 1, Len(p)) = p

\* s[len(p):], the slice term[3:] taken after startswith("khun")
DropPrefix(s, p) == SubSeq(s, Len(p) + 1, Len(s))

RECURSIVE Flatten(_)
\* The raw text of a token list: the words joined without separator.
Flatten(words) ==
    IF words = <<>> THEN <<>> ELSE Head(words) \o Flatten(Tail(words))

(***************************************************************************)
(* The tokenizer and the tagger (pythainlp)                                *)
(***************************************************************************)
\* A token as the tokenizer and the tagger return it.
Tok(word, tag) == [word |-> word, tag |-> tag]

\* The raw string of an utterance.
Raw(utterance) == Flatten([k \in 1..Len(utterance) |-> utterance[k].word])

\* word_tokenize(text, engine="newmm"): the list of token strings.
word_tokenize(utterance) == [k \in 1..Len(utterance) |-> utterance[k].word]

\* pos_tag(tokens): the list of (word, tag) pairs, one per token.
pos_tag(utterance) ==
    [k \in 1..Len(utterance) |-> <<utterance[k].word, utterance[k].tag>>]

(***************************************************************************)
(* is_self_reference(term, utterance)                                      *)
(***************************************************************************)
\* is_self_reference without the test for the negated pattern.
IsSelfReferenceNoNegation(term, utterance) ==
    IF term \in Elems(MONK_SELF_TERMS) /\ IsSubstring(term, Raw(utterance))
    THEN TRUE
    ELSE term \in Elems(word_tokenize(utterance))

\* is_self_reference without the special case: a monk self term is treated
\* as every other term.
IsSelfReferenceTokensOnly(term, utterance) ==
    IF term \notin Elems(word_tokenize(utterance))
    THEN FALSE
    ELSE IF IsSubstring(NEGATION \o term, Raw(utterance))
    THEN FALSE
    ELSE TRUE

is_self_reference(term, utterance) ==
    IF term \in Elems(MONK_SELF_TERMS) /\ IsSubstring(term, Raw(utterance))
    THEN TRUE
    ELSE IF term \notin Elems(word_tokenize(utterance))
    THEN FALSE
    ELSE IF IsSubstring(NEGATION \o term, Raw(utterance))
    THEN FALSE
    ELSE TRUE

(***************************************************************************)
(* find_terms_in_text(text)                                                *)
(***************************************************************************)
\* First loop: a term found among the tokens, or (second method) among the
\* tagged words with the common-noun tag.
DirectMatches(utterance) ==
    {term \in Elems(ALL_TERMS \o <<PHI_TERM>>) :
        \/ term \in Elems(word_tokenize(utterance))
        \/ \E wt \in Elems(pos_tag(utterance)) : wt[1] = term /\ wt[2] = "NCMN"}

\* Second loop: prefix + term found as one token.
PrefixedMatches(utterance) ==
    {prefix \o term : prefix \in Elems(PREFIXES),
                      term \in Elems(ALL_TERMS \o <<PHI_TERM>>)}
    \cap (Elems(word_tokenize(utterance))
          \cup {wt[1] : wt \in Elems(pos_tag(utterance))})

find_terms_in_text(utterance) ==
    DirectMatches(utterance) \cup PrefixedMatches(utterance)

(***************************************************************************)
(* The per-line computations of evaluate_conversation                      *)
(***************************************************************************)
\* The caller loop run over the list find_terms_in_text iterates
\* (ALL_TERMS + [PHI_TERM]) in place of ALL_TERMS.
SelfReferencesWithForbidden(utterance) ==
    {term \in Elems(ALL_TERMS \o <<PHI_TERM>>) : is_self_reference(term, utterance)}

\* The terms a caller line adds to self_ref_terms.
SelfReferences(utterance) ==
    {term \in Elems(ALL_TERMS) : is_self_reference(term, utterance)}

\* prefix + term for every prefix of PREFIXES.
Prefixed(terms) == {prefix \o term : prefix \in Elems(PREFIXES), term \in terms}

\* allowed_terms without its two unconditional add calls.
AllowedOnlyDisclosed(self_ref) ==
    self_ref \cup Prefixed(self_ref)
    \cup (IF self_ref \cap Elems(MONK_SELF_TERMS) # {}
          THEN Elems(MONK_TERMS) \cup Prefixed(Elems(MONK_TERMS))
          ELSE {})

\* allowed_terms without the branch for monk self terms.
AllowedWithoutUnlock(self_ref) ==
    {MONK_TERMS[1]} \cup Prefixed({MONK_TERMS[1]})
    \cup self_ref \cup Prefixed(self_ref)

\* allowed_terms with the disclosed monk self terms left out of the loop's
\* add calls: they unlock MONK_TERMS and are not added themselves.
AllowedWithoutMonkSelf(self_ref) ==
    {MONK_TERMS[1]} \cup Prefixed({MONK_TERMS[1]})
    \cup (self_ref \ Elems(MONK_SELF_TERMS))
    \cup Prefixed(self_ref \ Elems(MONK_SELF_TERMS))
    \cup (IF self_ref \cap Elems(MONK_SELF_TERMS) # {}
          THEN Elems(MONK_TERMS) \cup Prefixed(Elems(MONK_TERMS))
          ELSE {})

\* allowed_terms as computed at an agent line from self_ref_terms.
allowed_terms(self_ref) ==
    {MONK_TERMS[1]} \cup Prefixed({MONK_TERMS[1]})
    \cup self_ref \cup Prefixed(self_ref)
    \cup (IF self_ref \cap Elems(MONK_SELF_TERMS) # {}
          THEN Elems(MONK_TERMS) \cup Prefixed(Elems(MONK_TERMS))
          ELSE {})

\* phi_terms by equality with PHI_TERM alone.
PhiTermsBareOnly(used_terms) == {term \in used_terms : term = PHI_TERM}

\* phi_terms: the forbidden term, bare or after the prefix.
phi_terms(used_terms) ==
    {term \in used_terms :
        \/ term = PHI_TERM
        \/ (StartsWith(term, PREFIXES[1])
            /\ DropPrefix(term, PREFIXES[1]) = PHI_TERM)}

\* disallowed_terms without the test against phi_terms.
DisallowedWithForbidden(used_terms, self_ref) ==
    {term \in used_terms : term \notin allowed_terms(self_ref)}

\* disallowed_terms: used, not allowed, not forbidden.
disallowed_terms(used_terms, self_ref) ==
    {term \in used_terms :
        term \notin allowed_terms(self_ref) /\ term \notin phi_terms(used_terms)}

(***************************************************************************)
(* list(a_set): the iteration order of a set of strings follows the        *)
(* strings' hashes, which CPython salts per process (PYTHONHASHSEED).      *)
(* Two orders stand for the orders a process can produce.                  *)
(***************************************************************************)
HASH_SEEDS == {"ascending", "descending"}

\* Every string find_terms_in_text or the caller loop can put in a set.
FORMS ==
    ALL_TERMS \o <<PHI_TERM>>
    \o [k \in 1..(Len(ALL_TERMS) + 1) |-> PREFIXES[1] \o (ALL_TERMS \o <<PHI_TERM>>)[k]]

Rank(term) == CHOOSE k \in 1..Len(FORMS) : FORMS[k] = term

\* The element a process with this seed iterates first.
First(S, seed) ==
    CHOOSE t \in S :
        \A u \in S : IF seed = "ascending" THEN Rank(t) <= Rank(u)
                                            ELSE Rank(t) >= Rank(u)

RECURSIVE ListOf(_, _)
ListOf(S, seed) ==
    IF S = {} THEN <<>>
    ELSE <<First(S, seed)>> \o ListOf(S \ {First(S, seed)}, seed)

(***************************************************************************)
(* Inputs                                                                  *)
(***************************************************************************)
\* A line of the transcript file: the speaker label it starts with ("" when
\* it starts with neither) and the utterance after it.
Line(label, utterance) == [label |-> label, text |-> utterance]

BlankLine == Line("", <<>>)

N(word) == Tok(word, "NCMN")

P(word) == Tok(word, "PPRS")

\* The lines a transcript of the single-evaluation specifications is built of.
LineChoices ==
    { BlankLine,
      \* caller lines
      Line(CALLER_LABEL, <<N(<<"lung">>)>>),
      Line(CALLER_LABEL, <<P(<<"aa", "tama">>)>>),
      Line(CALLER_LABEL, <<N(<<"lung">>), P(<<"maichai">>), N(<<"lung">>)>>),
      Line(CALLER_LABEL, <<P(<<"maichai">>), N(<<"luang", "phi">>)>>),
      Line(CALLER_LABEL, <<P(<<"phi">>), N(<<"pa">>), N(<<"phra", "khun", "chao">>)>>),
      \* agent lines
      Line(AGENT_LABEL, <<N(<<"lung">>), P(<<"khrap">>)>>),
      Line(AGENT_LABEL, <<N(<<"khun", "lung">>), N(<<"pa">>)>>),
      Line(AGENT_LABEL, <<N(<<"khun", "phi">>)>>),
      Line(AGENT_LABEL, <<P(<<"than">>)>>),
      Line(AGENT_LABEL, <<N(<<"phra", "khun", "chao">>), P(<<"aa", "tama">>)>>),
      Line(AGENT_LABEL, <<N(<<"lung">>), P(<<"phi">>)>>),
      \* a line with neither label
      Line("", <<P(<<"phi">>), N(<<"lung">>)>>) }

\* The longest transcript file, in lines.
MaxLines == 3

RECURSIVE SeqsUpTo(_, _)
\* The sequences over S of length at most n.
SeqsUpTo(S, n) ==
    IF n = 0 THEN {<<>>}
    ELSE LET shorter == SeqsUpTo(S, n - 1)
         IN  shorter \cup {Append(q, x) : q \in {r \in shorter : Len(r) = n - 1}, x \in S}

\* The invocations of evaluate_conversation.
Calls == {1, 2}

(***************************************************************************)
(* State                                                                   *)
(***************************************************************************)
VARIABLES
    file,            \* per call: the lines of the file at file_path
    hash_seed,       \* per call: the string-hash salt of the process running it
    bad_text,        \* the utterances on which word_tokenize raises
    pc,              \* per call: "idle", "open", "loop", "returned", "raised"
    lines,           \* per call: the local list lines
    i,               \* per call: lines already processed by the for loop
    self_ref_terms,  \* per call: the local set self_ref_terms
    results,         \* per call: the local dict results
    ret,             \* per call: <<>>, or the returned tuple <<score, results>>
    tone             \* the invocation of tone_analysis: inputs, locals, output

vars == <<file, hash_seed, bad_text, pc, lines, i, self_ref_terms, results, ret,
          tone>>

\* tone_analysis is not called.
ToneNotCalled == [pc |-> "idle"]

\* results as created at the top of evaluate_conversation.
InitialResults ==
    [status |-> "PASS", self_referenced |-> <<>>, allowed_terms |-> <<>>,
     violations |-> <<>>]

\* The calls in `active` are about to run on `files`, in processes salted
\* with `seeds`, with a tokenizer that raises on the utterances in `bad`.
Begin(files, seeds, bad, active) ==
    /\ file = files
    /\ hash_seed = seeds
    /\ bad_text = bad
    /\ pc = [c \in Calls |-> IF c \in active THEN "open" ELSE "idle"]
    /\ lines = [c \in Calls |-> <<>>]
    /\ i = [c \in Calls |-> 0]
    /\ self_ref_terms = [c \in Calls |-> {}]
    /\ results = [c \in Calls |-> InitialResults]
    /\ ret = [c \in Calls |-> <<>>]

\* One evaluation (call 1), a tokenizer that never fails.
Init ==
    \E f \in SeqsUpTo(LineChoices, MaxLines), seed \in HASH_SEEDS :
        /\ Begin(<<f, <<>>>>, <<seed, seed>>, {}, {1})
        /\ tone = ToneNotCalled

(***************************************************************************)
(* evaluate_conversation, one action per step                              *)
(***************************************************************************)
\* line.strip() is empty.
IsBlank(raw) == raw.label = "" /\ raw.text = <<>>

\* lines = [line.strip() for line in f], the blank lines kept.
ReadLinesKeepBlank(f) == f

\* lines = [line.strip() for line in f if line.strip()]
ReadLines(f) == SelectSeq(f, LAMBDA raw : ~IsBlank(raw))

\* The file is read, results and self_ref_terms are created.
Open(c) ==
    /\ pc[c] = "open"
    /\ lines' = [lines EXCEPT ![c] = ReadLines(file[c])]
    /\ results' = [results EXCEPT ![c] = InitialResults]
    /\ self_ref_terms' = [self_ref_terms EXCEPT ![c] = {}]
    /\ i' = [i EXCEPT ![c] = 0]
    /\ pc' = [pc EXCEPT ![c] = "loop"]
    /\ UNCHANGED <<tone, file, hash_seed, bad_text, ret>>

\* The line the for loop is about to process.
Current(c) == lines[c][i[c] + 1]

\* word_tokenize raises on this line: a caller or an agent line (the only
\* ones tokenized) whose utterance the tokenizer cannot segment.
Raises(c) ==
    /\ Current(c).label \in {CALLER_LABEL, AGENT_LABEL}
    /\ Current(c).text \in bad_text

\* self_ref_terms kept in one module-level set shared by the invocations.
DisclosedShared(c) == UNION {self_ref_terms[d] : d \in Calls}

\* self_ref_terms collected from every caller line of the file before the
\* loop judges any line.
DisclosedAnywhere(c) ==
    UNION {SelfReferences(lines[c][k].text) :
             k \in {j \in 1..Len(lines[c]) : lines[c][j].label = CALLER_LABEL}}

\* self_ref_terms as the call reads it: a local of the invocation.
Disclosed(c) == self_ref_terms[c]

\* The narrowing policy: the most recent self-reference replaces the set.
AfterCallerLatest(self_ref, utterance) ==
    IF SelfReferences(utterance) # {} THEN SelfReferences(utterance) ELSE self_ref

\* self_ref_terms after a caller line.
AfterCaller(self_ref, utterance) == self_ref \cup SelfReferences(utterance)

\* A line starting with 'Speaker 2:'.
CallerLine(c) ==
    /\ pc[c] = "loop"
    /\ i[c] < Len(lines[c])
    /\ Current(c).label = CALLER_LABEL
    /\ ~Raises(c)
    /\ self_ref_terms' =
         [self_ref_terms EXCEPT ![c] = AfterCaller(Disclosed(c), Current(c).text)]
    /\ i' = [i EXCEPT ![c] = @ + 1]
    /\ UNCHANGED <<tone, file, hash_seed, bad_text, pc, lines, results, ret>>

\* A violation message: "Line {i+1}: Used forbidden term(s): {list}" or
\* "Line {i+1}: Used unapproved term(s): {list}".
Message(number, kind, terms) == [line |-> number, kind |-> kind, terms |-> terms]

\* The forbidden-term check made only while nothing has failed yet.
AfterForbiddenFirstOnly(res, number, used_terms, seed) ==
    IF used_terms # {} /\ phi_terms(used_terms) # {} /\ res.status = "PASS"
    THEN [res EXCEPT
            !.status = "FAIL",
            !.violations = Append(@, Message(number, "forbidden",
                                             ListOf(phi_terms(used_terms), seed)))]
    ELSE res

\* The forbidden-term message stored as the whole list (assignment for append).
AfterForbiddenOverwrites(res, number, used_terms, seed) ==
    IF used_terms # {} /\ phi_terms(used_terms) # {}
    THEN [res EXCEPT
            !.status = "FAIL",
            !.violations = <<Message(number, "forbidden",
                                     ListOf(phi_terms(used_terms), seed))>>]
    ELSE res

\* results after the forbidden-term check of an agent line.
AfterForbidden(res, number, used_terms, seed) ==
    IF used_terms # {} /\ phi_terms(used_terms) # {}
    THEN [res EXCEPT
            !.status = "FAIL",
            !.violations = Append(@, Message(number, "forbidden",
                                             ListOf(phi_terms(used_terms), seed)))]
    ELSE res

\* The unapproved-term check made only when no forbidden term was found (elif).
AfterUnapprovedElse(res, number, used_terms, self_ref, seed) ==
    IF /\ used_terms # {}
       /\ phi_terms(used_terms) = {}
       /\ disallowed_terms(used_terms, self_ref) # {}
    THEN [res EXCEPT
            !.status = "FAIL",
            !.violations = Append(@, Message(number, "unapproved",
                                 ListOf(disallowed_terms(used_terms, self_ref), seed)))]
    ELSE res

\* results after the unapproved-term check of an agent line.
AfterUnapproved(res, number, used_terms, self_ref, seed) ==
    IF used_terms # {} /\ disallowed_terms(used_terms, self_ref) # {}
    THEN [res EXCEPT
            !.status = "FAIL",
            !.violations = Append(@, Message(number, "unapproved",
                                 ListOf(disallowed_terms(used_terms, self_ref), seed)))]
    ELSE res

\* results after an agent line.
AfterAgent(res, number, utterance, self_ref, seed) ==
    AfterUnapproved(
        AfterForbidden(res, number, find_terms_in_text(utterance), seed),
        number, find_terms_in_text(utterance), self_ref, seed)

\* A line starting with 'Speaker 1:'.
AgentLine(c) ==
    /\ pc[c] = "loop"
    /\ i[c] < Len(lines[c])
    /\ Current(c).label = AGENT_LABEL
    /\ ~Raises(c)
    /\ results' = [results EXCEPT ![c] =
         AfterAgent(@, i[c] + 1, Current(c).text, Disclosed(c), hash_seed[c])]
    /\ i' = [i EXCEPT ![c] = @ + 1]
    /\ UNCHANGED <<tone, file, hash_seed, bad_text, pc, lines, self_ref_terms, ret>>

\* A line starting with neither label judged as an agent line (else for elif).
OtherLineAsAgent(c) ==
    /\ pc[c] = "loop"
    /\ i[c] < Len(lines[c])
    /\ Current(c).label \notin {CALLER_LABEL, AGENT_LABEL}
    /\ results' = [results EXCEPT ![c] =
         AfterAgent(@, i[c] + 1, Current(c).text, Disclosed(c), hash_seed[c])]
    /\ i' = [i EXCEPT ![c] = @ + 1]
    /\ UNCHANGED <<tone, file, hash_seed, bad_text, pc, lines, self_ref_terms, ret>>

\* A line starting with neither label: the loop goes on to the next line.
OtherLine(c) ==
    /\ pc[c] = "loop"
    /\ i[c] < Len(lines[c])
    /\ Current(c).label \notin {CALLER_LABEL, AGENT_LABEL}
    /\ i' = [i EXCEPT ![c] = @ + 1]
    /\ UNCHANGED <<tone, file, hash_seed, bad_text, pc, lines, self_ref_terms, results, ret>>

\* The score taken from the truth value of the status string.
ReturnValueTruthy(res) == <<IF res.status # "" THEN 1 ELSE 0, res>>

\* The value of the return statement.
ReturnValue(res) == <<IF res.status = "PASS" THEN 1 ELSE 0, res>>

\* After the loop: self_referenced is filled in and the tuple is returned.
Return(c) ==
    /\ pc[c] = "loop"
    /\ i[c] = Len(lines[c])
    /\ results' = [results EXCEPT ![c] =
         [@ EXCEPT !.self_referenced = ListOf(Disclosed(c), hash_seed[c])]]
    /\ ret' = [ret EXCEPT ![c] = ReturnValue(results'[c])]
    /\ pc' = [pc EXCEPT ![c] = "returned"]
    /\ UNCHANGED <<tone, file, hash_seed, bad_text, lines, i, self_ref_terms>>

\* word_tokenize raises inside is_self_reference or find_terms_in_text:
\* nothing catches the exception, it leaves evaluate_conversation.
Raise(c) ==
    /\ pc[c] = "loop"
    /\ i[c] < Len(lines[c])
    /\ Raises(c)
    /\ pc' = [pc EXCEPT ![c] = "raised"]
    /\ UNCHANGED <<tone, file, hash_seed, bad_text, lines, i, self_ref_terms, results, ret>>

Next ==
    \E c \in Calls :
        \/ Open(c)
        \/ CallerLine(c)
        \/ AgentLine(c)
        \/ OtherLine(c)
        \/ Return(c)

Spec == Init /\ [][Next]_vars

(***************************************************************************)
(* One evaluation that the interpreter keeps executing                     *)
(***************************************************************************)
\* The lines the transcripts of the fair specification are built of.
LineChoicesScan ==
    { Line(CALLER_LABEL, <<N(<<"lung">>)>>),
      Line(AGENT_LABEL, <<N(<<"lung">>), P(<<"phi">>)>>),
      Line(AGENT_LABEL, <<N(<<"khun", "phi">>)>>),
      Line("", <<P(<<"phi">>), N(<<"lung">>)>>) }

\* The longest transcript file of the fair specification, in lines.
MaxLinesScan == 3

InitScan ==
    \E f \in SeqsUpTo(LineChoicesScan, MaxLinesScan), seed \in HASH_SEEDS :
        /\ Begin(<<f, <<>>>>, <<seed, seed>>, {}, {1})
        /\ tone = ToneNotCalled

\* A call that can take a step takes it: the interpreter does not stop
\* inside evaluate_conversation.
FairScan == InitScan /\ [][Next]_vars /\ WF_vars(Next)

(***************************************************************************)
(* evaluate_conversation run alone, from entry to return                   *)
(***************************************************************************)
RECURSIVE Scan(_, _, _, _, _)
\* The for loop from line k + 1 on: the final self_ref_terms and results.
Scan(ls, k, self_ref, res, seed) ==
    IF k = Len(ls) THEN [self_ref |-> self_ref, res |-> res]
    ELSE IF ls[k + 1].label = CALLER_LABEL
    THEN Scan(ls, k + 1, AfterCaller(self_ref, ls[k + 1].text), res, seed)
    ELSE IF ls[k + 1].label = AGENT_LABEL
    THEN Scan(ls, k + 1, self_ref,
              AfterAgent(res, k + 1, ls[k + 1].text, self_ref, seed), seed)
    ELSE Scan(ls, k + 1, self_ref, res, seed)

\* The tuple evaluate_conversation returns for file f in a process salted
\* with seed, when nothing else runs.
Evaluate(f, seed) ==
    LET final == Scan(ReadLines(f), 0, {}, InitialResults, seed)
    IN  ReturnValue([final.res EXCEPT
                       !.self_referenced = ListOf(final.self_ref, seed)])

(***************************************************************************)
(* Two evaluations whose steps interleave, each in a process of its own    *)
(* or both in one (equal seeds)                                            *)
(***************************************************************************)
\* The lines the transcripts of the two evaluations are built of.
LineChoicesTwo ==
    { Line(CALLER_LABEL, <<N(<<"lung">>)>>),
      Line(AGENT_LABEL, <<N(<<"lung">>), N(<<"pa">>)>>),
      Line("", <<P(<<"phi">>), N(<<"lung">>)>>) }

\* The longest transcript file of the two evaluations, in lines.
MaxLinesTwo == 2

InitTwo ==
    \E f1 \in SeqsUpTo(LineChoicesTwo, MaxLinesTwo),
       f2 \in SeqsUpTo(LineChoicesTwo, MaxLinesTwo),
       s1 \in HASH_SEEDS, s2 \in HASH_SEEDS :
        /\ Begin(<<f1, f2>>, <<s1, s2>>, {}, {1, 2})
        /\ tone = ToneNotCalled

SpecTwo == InitTwo /\ [][Next]_vars

(***************************************************************************)
(* One evaluation with a tokenizer that fails on one utterance             *)
(***************************************************************************)
\* The utterances the failing tokenizer may be unable to segment.
UnsegmentableChoices ==
    { <<P(<<"than">>)>>, <<N(<<"lung">>)>> }

InitSegFail ==
    \E f \in SeqsUpTo(LineChoices, MaxLines), seed \in HASH_SEEDS,
       u \in UnsegmentableChoices :
        /\ Begin(<<f, <<>>>>, <<seed, seed>>, {u}, {1})
        /\ tone = ToneNotCalled

NextSegFail ==
    \/ Next
    \/ \E c \in Calls : Raise(c)

SpecSegFail == InitSegFail /\ [][NextSegFail]_vars

(***************************************************************************)
(* One evaluation of transcripts made to exercise is_self_reference        *)
(***************************************************************************)
\* The lines of these transcripts: caller utterances in which a term is a
\* token, is part of a longer token, spans two tokens, or follows the
\* negation marker.
LineChoicesCaller ==
    { Line(CALLER_LABEL, <<N(<<"lung">>)>>),
      Line(CALLER_LABEL, <<N(<<"khun", "lung">>)>>),
      Line(CALLER_LABEL, <<N(<<"lung">>), P(<<"maichai">>), N(<<"lung">>)>>),
      Line(CALLER_LABEL, <<N(<<"aa">>), P(<<"maichai">>), P(<<"aa", "tama">>)>>),
      Line(CALLER_LABEL, <<P(<<"maichai">>), N(<<"luang">>), N(<<"pho">>)>>),
      Line(AGENT_LABEL, <<N(<<"phra", "khun", "chao">>), N(<<"lung">>)>>),
      Line("", <<P(<<"phi">>), N(<<"lung">>)>>) }

\* The longest of these transcripts, in lines.
MaxLinesCaller == 3

InitCaller ==
    \E f \in SeqsUpTo(LineChoicesCaller, MaxLinesCaller), seed \in HASH_SEEDS :
        /\ Begin(<<f, <<>>>>, <<seed, seed>>, {}, {1})
        /\ tone = ToneNotCalled

SpecCaller == InitCaller /\ [][Next]_vars

(***************************************************************************)
(* One evaluation of transcripts made to exercise the judgement of agent   *)
(* lines and their numbering                                               *)
(***************************************************************************)
\* The lines of these transcripts: agent utterances with bare and prefixed,
\* allowed, not allowed and forbidden occurrences, between disclosures,
\* blank lines and lines with neither label.
LineChoicesAgent ==
    { BlankLine,
      Line(CALLER_LABEL, <<N(<<"lung">>)>>),
      Line(CALLER_LABEL, <<P(<<"aa", "tama">>)>>),
      Line(AGENT_LABEL, <<N(<<"lung">>), P(<<"khrap">>)>>),
      Line(AGENT_LABEL, <<N(<<"khun", "lung">>), N(<<"pa">>)>>),
      Line(AGENT_LABEL, <<N(<<"khun", "phi">>)>>),
      Line(AGENT_LABEL, <<N(<<"lung">>), P(<<"phi">>)>>),
      Line(AGENT_LABEL, <<P(<<"than">>)>>),
      Line("", <<P(<<"phi">>), N(<<"lung">>)>>) }

\* The longest of these transcripts, in lines.
MaxLinesAgent == 3

InitAgent ==
    \E f \in SeqsUpTo(LineChoicesAgent, MaxLinesAgent), seed \in HASH_SEEDS :
        /\ Begin(<<f, <<>>>>, <<seed, seed>>, {}, {1})
        /\ tone = ToneNotCalled

SpecAgent == InitAgent /\ [][Next]_vars

(***************************************************************************)
(* tone_analysis (tone_analysis.py): the acoustic criteria and the final   *)
(* result.  Feature extraction and the classifier are outside the model:   *)
(* an invocation is given the number of audio files with features and, per *)
(* criterion, the number of files whose probability reached the            *)
(* criterion's threshold.                                                  *)
(***************************************************************************)
\* The keys of thresholds.
Criteria == {"willing_to_serve", "not_sluggish", "not_monotone", "not_harsh"}

\* The values twang_score is called with.
TwangScores == {0, 1}

\* The largest number of audio files of a directory.
MaxFiles == 2

\* score of a criterion: 1 if pass_rate >= 0.60 else 0, with
\* pass_rate = passed_files / total_files (0 for no file).
CriterionScore(passed_files, total_files) ==
    IF total_files > 0 /\ 5 * passed_files >= 3 * total_files THEN 1 ELSE 0

\* num_criteria_passed as calculate_criteria_scores returns it.
calculate_criteria_scores(passed, total_files) ==
    Cardinality({criterion \in Criteria :
                    CriterionScore(passed[criterion], total_files) = 1})

\* tone_analysis is called on a directory whose files gave predictions.
InitTone ==
    /\ Begin(<< <<>>, <<>> >>, <<"ascending", "ascending">>, {}, {})
    /\ \E total_files \in 1..MaxFiles, twang_score \in TwangScores :
         \E passed \in [Criteria -> 0..total_files] :
            tone = [pc |-> "predicted", total_files |-> total_files,
                    passed |-> passed, twang_score |-> twang_score]

\* num_criteria_passed, criteria_details = calculate_criteria_scores(...)
CalculateScores ==
    /\ tone.pc = "predicted"
    /\ tone' = [pc |-> "scored", total_files |-> tone.total_files,
                passed |-> tone.passed, twang_score |-> tone.twang_score,
                num_criteria_passed |->
                    calculate_criteria_scores(tone.passed, tone.total_files)]
    /\ UNCHANGED <<file, hash_seed, bad_text, pc, lines, i, self_ref_terms, results, ret>>

\* total_passed and final_pass.
FinalResult ==
    /\ tone.pc = "scored"
    /\ tone' = [pc |-> "decided", total_files |-> tone.total_files,
                passed |-> tone.passed, twang_score |-> tone.twang_score,
                num_criteria_passed |-> tone.num_criteria_passed,
                total_passed |-> tone.num_criteria_passed + tone.twang_score,
                final_pass |-> (tone.num_criteria_passed + tone.twang_score >= 3)]
    /\ UNCHANGED <<file, hash_seed, bad_text, pc, lines, i, self_ref_terms, results, ret>>

\* The last print: "Final Result: PASS|FAIL (4 or more criteria must pass)".
PrintFinalResult ==
    /\ tone.pc = "decided"
    /\ tone' = [pc |-> "printed", total_files |-> tone.total_files,
                passed |-> tone.passed, twang_score |-> tone.twang_score,
                num_criteria_passed |-> tone.num_criteria_passed,
                total_passed |-> tone.total_passed,
                final_pass |-> tone.final_pass,
                final_result |-> IF tone.final_pass THEN "PASS" ELSE "FAIL",
                must_pass |-> 4]
    /\ UNCHANGED <<file, hash_seed, bad_text, pc, lines, i, self_ref_terms, results, ret>>

NextTone ==
    \/ CalculateScores
    \/ FinalResult
    \/ PrintFinalResult

SpecTone == InitTone /\ [][NextTone]_vars

(***************************************************************************)
(* Vocabulary of the properties                                            *)
(***************************************************************************)
\* A call whose loop has started.
Running(c) == pc[c] \in {"loop", "returned"}

\* The violations recorded so far, and those of line number k.
Violations(c) == results[c].violations

ViolationsAt(c, k) == {v \in Elems(Violations(c)) : v.line = k}

\* Line k of the call is an agent / a caller line.
IsAgent(c, k) == lines[c][k].label = AGENT_LABEL

IsCaller(c, k) == lines[c][k].label = CALLER_LABEL

\* Bare and prefixed forms of the categories.
WithPrefixed(terms) == terms \cup Prefixed(terms)

ForbiddenForms == WithPrefixed({PHI_TERM})

MonkAddressForms == WithPrefixed(Elems(MONK_TERMS))

MonkSelfForms == WithPrefixed(Elems(MONK_SELF_TERMS))

FamilyForms == WithPrefixed(Elems(FAMILY_TERMS))

\* The term finder reports the forbidden term on line k.
ReportsForbidden(c, k) ==
    find_terms_in_text(lines[c][k].text) \cap ForbiddenForms # {}

(***************************************************************************)
(* C1  Monotonicity: no step removes a term from self_ref_terms; the set   *)
(* after any line contains the set after every earlier line.               *)
(***************************************************************************)
C1_Monotonic ==
    [][\A c \in Calls : self_ref_terms[c] \subseteq self_ref_terms'[c]]_vars

\* A later caller line disclosed other terms and an earlier term is still there.
C1_Witness ==
    /\ Running(1)
    /\ i[1] >= 2
    /\ IsCaller(1, i[1])
    /\ SelfReferences(lines[1][i[1]].text) # {}
    /\ \E t \in self_ref_terms[1] : t \notin SelfReferences(lines[1][i[1]].text)

(***************************************************************************)
(* C2  Forbidden-term absoluteness: among the lines processed so far, the  *)
(* lines carrying a forbidden-term violation are exactly the agent lines   *)
(* on which the finder reports the forbidden term, bare or prefixed; each  *)
(* carries one such violation, whatever has been disclosed.                *)
(***************************************************************************)
C2_ForbiddenAbsolute ==
    \A c \in Calls :
        Running(c) =>
            /\ \A k \in 1..i[c] :
                 (IsAgent(c, k) /\ ReportsForbidden(c, k))
                 <=> (\E v \in ViolationsAt(c, k) : v.kind = "forbidden")
            /\ \A a, b \in 1..Len(Violations(c)) :
                 (/\ Violations(c)[a].kind = "forbidden"
                  /\ Violations(c)[b].kind = "forbidden"
                  /\ Violations(c)[a].line = Violations(c)[b].line) => a = b

\* A forbidden-term violation on a line that follows a disclosure and an
\* earlier failure.
C2_Witness ==
    /\ Running(1)
    /\ i[1] = 3
    /\ self_ref_terms[1] # {}
    /\ ViolationsAt(1, 2) # {}
    /\ \E v \in ViolationsAt(1, 3) : v.kind = "forbidden"

(***************************************************************************)
(* C3  As claimed: at every agent line, whatever has been disclosed, every *)
(* monk address term (bare or prefixed) is in the allowed set, so that a   *)
(* monk address term the agent uses is never listed in a violation.  The   *)
(* claim is stated for the monk address terms found on the line.           *)
(***************************************************************************)
\* The loop has just processed an agent line; self_ref_terms is the set the
\* line was judged against.
JustDidAgent(c) == Running(c) /\ i[c] >= 1 /\ IsAgent(c, i[c])

\* C3 as claimed: a monk address term found on an agent line is allowed and
\* is listed in no violation of the line.
C3_MonkAddressAlwaysAllowed ==
    \A c \in Calls :
        JustDidAgent(c) =>
            /\ find_terms_in_text(lines[c][i[c]].text) \cap MonkAddressForms
                 \subseteq allowed_terms(self_ref_terms[c])
            /\ \A v \in ViolationsAt(c, i[c]) :
                 Elems(v.terms) \cap MonkAddressForms = {}

(***************************************************************************)
(* C3  As amended: at every agent line MONK_TERMS[0] (than), bare or       *)
(* prefixed, is in the allowed set whatever has been disclosed, and no     *)
(* violation ever lists it.  MONK_TERMS[1] (phra-khun-chao), bare or       *)
(* prefixed, is in the allowed set exactly when the caller has disclosed   *)
(* it or some monk self term; until then an agent occurrence of it is      *)
(* listed in an unapproved-term violation of its line.                     *)
(***************************************************************************)
ThanForms == WithPrefixed({MONK_TERMS[1]})

PhraKhunChaoForms == WithPrefixed({MONK_TERMS[2]})

\* C3 as amended: than is always allowed; phra-khun-chao exactly when it or
\* a monk self term has been disclosed.
C3_OnlyThanAlwaysAllowed ==
    \A c \in Calls :
        JustDidAgent(c) =>
            LET S == self_ref_terms[c]
                used == find_terms_in_text(lines[c][i[c]].text)
                unlocked == MONK_TERMS[2] \in S \/ S \cap Elems(MONK_SELF_TERMS) # {}
            IN  /\ ThanForms \subseteq allowed_terms(S)
                /\ \A v \in Elems(Violations(c)) : Elems(v.terms) \cap ThanForms = {}
                /\ IF unlocked
                   THEN PhraKhunChaoForms \subseteq allowed_terms(S)
                   ELSE PhraKhunChaoForms \cap allowed_terms(S) = {}
                /\ \A t \in used \cap PhraKhunChaoForms :
                     unlocked <=> ~(\E v \in ViolationsAt(c, i[c]) :
                                       v.kind = "unapproved" /\ t \in Elems(v.terms))

\* Nothing disclosed: the agent's phra-khun-chao on line 1 was reported, the
\* agent's than on line 2 was not.
C3_Witness ==
    /\ JustDidAgent(1)
    /\ i[1] = 2
    /\ self_ref_terms[1] = {}
    /\ MONK_TERMS[1] \in find_terms_in_text(lines[1][2].text)
    /\ ViolationsAt(1, 2) = {}
    /\ \E v \in ViolationsAt(1, 1) : MONK_TERMS[2] \in Elems(v.terms)

(***************************************************************************)
(* C4  Unlock relation: once a caller line has disclosed a monk self term, *)
(* every monk address term, bare or prefixed, is in the allowed set from   *)
(* then on, and no violation of a later line lists one, even if the monk   *)
(* address term itself was never disclosed.                                *)
(***************************************************************************)
DisclosesMonkSelf(c, k) ==
    /\ IsCaller(c, k)
    /\ SelfReferences(lines[c][k].text) \cap Elems(MONK_SELF_TERMS) # {}

\* C4: after a monk self term is disclosed every monk address term stays
\* allowed and is listed by no later violation.
C4_Unlock ==
    \A c \in Calls :
        Running(c) =>
            /\ (\E k \in 1..i[c] : DisclosesMonkSelf(c, k))
                 => MonkAddressForms \subseteq allowed_terms(self_ref_terms[c])
            /\ \A v \in Elems(Violations(c)) :
                 (\E k \in 1..(v.line - 1) : DisclosesMonkSelf(c, k))
                 => Elems(v.terms) \cap MonkAddressForms = {}

\* Line 1 discloses a monk self term, line 2 is a caller line disclosing
\* something else, line 3 is the agent using the never-disclosed
\* phra-khun-chao: no violation.
C4_Witness ==
    /\ Running(1)
    /\ i[1] = 3
    /\ DisclosesMonkSelf(1, 1)
    /\ IsCaller(1, 2)
    /\ SelfReferences(lines[1][2].text) # {}
    /\ ~DisclosesMonkSelf(1, 2)
    /\ IsAgent(1, 3)
    /\ MONK_TERMS[2] \in find_terms_in_text(lines[1][3].text)
    /\ MONK_TERMS[2] \notin self_ref_terms[1]
    /\ Violations(1) = <<>>

(***************************************************************************)
(* C5  No-disclosure lockout: while self_ref_terms is empty, every agent   *)
(* line processed on which a family or monk self term is found (bare or    *)
(* prefixed) has an unapproved-term violation listing those terms, and the *)
(* status is FAIL; a call that returns with nothing disclosed and such a   *)
(* line returns score 0 and status FAIL.                                   *)
(***************************************************************************)
LockedForms == FamilyForms \cup MonkSelfForms

UsesLocked(c, k) ==
    IsAgent(c, k) /\ find_terms_in_text(lines[c][k].text) \cap LockedForms # {}

\* C5: with nothing disclosed every agent use of a family or monk self term
\* is a violation and the status is FAIL.
C5_Lockout ==
    \A c \in Calls :
        (Running(c) /\ self_ref_terms[c] = {}) =>
            /\ \A k \in 1..i[c] :
                 UsesLocked(c, k) =>
                    \E v \in ViolationsAt(c, k) :
                        /\ v.kind = "unapproved"
                        /\ find_terms_in_text(lines[c][k].text) \cap LockedForms
                             \subseteq Elems(v.terms)
            /\ (\E k \in 1..i[c] : UsesLocked(c, k)) => results[c].status = "FAIL"
            /\ (pc[c] = "returned" /\ \E k \in 1..i[c] : UsesLocked(c, k))
                 => (ret[c][1] = 0 /\ ret[c][2].status = "FAIL")

\* A returned call whose caller spoke without disclosing anything and whose
\* agent used a family term together with the forbidden term.
C5_Witness ==
    /\ pc[1] = "returned"
    /\ self_ref_terms[1] = {}
    /\ \E k \in 1..i[1] : IsCaller(1, k)
    /\ \E k \in 1..i[1] : UsesLocked(1, k) /\ ReportsForbidden(1, k)

(***************************************************************************)
(* C6  At the end of every evaluation the returned status is FAIL exactly  *)
(* when the returned violation list is not empty, PASS otherwise, and the  *)
(* returned score is 1 exactly when the status is PASS, 0 otherwise.       *)
(***************************************************************************)
C6_StatusAndScore ==
    \A c \in Calls :
        pc[c] = "returned" =>
            /\ ret[c][2].status \in {"PASS", "FAIL"}
            /\ ret[c][2].status = "FAIL" <=> ret[c][2].violations # <<>>
            /\ ret[c][1] \in {0, 1}
            /\ ret[c][1] = 1 <=> ret[c][2].status = "PASS"

\* A call that returned FAIL with two violations after a line that passed.
C6_Witness ==
    /\ pc[1] = "returned"
    /\ ret[1][1] = 0
    /\ Len(ret[1][2].violations) = 2
    /\ IsAgent(1, 1)
    /\ ViolationsAt(1, 1) = {}

(***************************************************************************)
(* C7  As claimed: a segmentation failure on one line does not abort the   *)
(* evaluation; the call goes on with the remaining lines and returns a     *)
(* result.  Stated: a call that has read its file is in its loop or has    *)
(* returned, whatever the tokenizer did on the lines it met.               *)
(***************************************************************************)
C7_SegmentationFailureIsLocal ==
    \A c \in Calls :
        (pc[c] \notin {"idle", "open"}) =>
            /\ pc[c] \in {"loop", "returned"}
            /\ pc[c] = "returned" => ret[c] # <<>>

(***************************************************************************)
(* C8  Violations never stop the scan.  A step that records a violation    *)
(* leaves the call in its loop, at the next line, and a call returns only  *)
(* with every line processed; an agent line just processed that holds a    *)
(* forbidden or a not-allowed occurrence has its violation in the list,    *)
(* however many violations came before; a step changes the list only by    *)
(* appending to it; the entries are in non-decreasing line order.          *)
(***************************************************************************)
\* sequence p is an initial part of sequence q
IsPrefix(p, q) == Len(p) <= Len(q) /\ SubSeq(q, 1, Len(p)) = p

\* The agent line just processed holds a forbidden occurrence or one that is
\* not in the allowed set it was judged against.
Offending(c) ==
    LET used == find_terms_in_text(lines[c][i[c]].text)
    IN  \/ used \cap ForbiddenForms # {}
        \/ ~(used \subseteq allowed_terms(self_ref_terms[c]))

C8_ScanState ==
    \A c \in Calls :
        /\ pc[c] \in {"idle", "open", "loop", "returned"}
        /\ pc[c] = "returned" => i[c] = Len(lines[c])
        /\ (JustDidAgent(c) /\ Offending(c)) => ViolationsAt(c, i[c]) # {}
        /\ \A a, b \in 1..Len(Violations(c)) :
             a <= b => Violations(c)[a].line <= Violations(c)[b].line
        /\ \A v \in Elems(Violations(c)) : v.line \in 1..i[c] /\ IsAgent(c, v.line)

C8_ScanStep ==
    \A c \in Calls :
        /\ IsPrefix(Violations(c), results'[c].violations)
        /\ results'[c].violations # Violations(c)
             => (pc[c] = "loop" /\ pc'[c] = "loop" /\ i'[c] = i[c] + 1)
        /\ (pc[c] = "loop" /\ pc'[c] # "loop")
             => (pc'[c] = "returned" /\ i[c] = Len(lines[c]))

\* C8: violations never stop the scan; they accumulate by appending, in
\* line order, and the call goes through every line and returns.
C8_ScanNeverStops ==
    /\ []C8_ScanState
    /\ [][C8_ScanStep]_vars
    /\ \A c \in Calls : (pc[c] = "open") ~> (pc[c] = "returned")

\* The third line adds its violations after each of the two lines before it
\* already produced one, and the call returns.
C8_Witness ==
    /\ pc[1] = "returned"
    /\ i[1] = 3
    /\ \A k \in 1..3 : ViolationsAt(1, k) # {}
    /\ Len(Violations(1)) >= 4

(***************************************************************************)
(* C9  As claimed: two evaluations of the same transcript (the tokenizer   *)
(* answers the same for the same text) return identical results: the same  *)
(* score, status, disclosed terms and violation list.                      *)
(***************************************************************************)
C9_Idempotent ==
    (/\ pc[1] = "returned"
     /\ pc[2] = "returned"
     /\ file[1] = file[2]) => ret[1] = ret[2]

(***************************************************************************)
(* C10  Two evaluations whose steps interleave in any order each return    *)
(* exactly what evaluate_conversation returns for their transcript when    *)
(* run alone, and a step of one call leaves every local and the result of  *)
(* the other call as they were.                                            *)
(***************************************************************************)
C10_AsAlone ==
    \A c \in Calls :
        pc[c] = "returned" => ret[c] = Evaluate(file[c], hash_seed[c])

\* The part of the state that belongs to call c.
Own(c) == <<pc[c], lines[c], i[c], self_ref_terms[c], results[c], ret[c]>>

C10_StepOfOne ==
    \E c \in Calls :
        \A d \in Calls \ {c} :
            Own(d)' = Own(d)

\* C10: interleaved calls return what they return alone; a step touches one
\* call only.
C10_NoInterference == []C10_AsAlone /\ [][C10_StepOfOne]_vars

\* Both calls returned; call 1 disclosed the family term that call 2, which
\* disclosed nothing, was reported for using.
C10_Witness ==
    /\ pc[1] = "returned"
    /\ pc[2] = "returned"
    /\ FAMILY_TERMS[1] \in self_ref_terms[1]
    /\ self_ref_terms[2] = {}
    /\ ret[1][1] = 1
    /\ \E v \in Elems(ret[2][2].violations) : FAMILY_TERMS[1] \in Elems(v.terms)

(***************************************************************************)
(* C11  The forbidden term, bare or prefixed, is never in self_ref_terms   *)
(* and never in the allowed set computed from it, in any state of any      *)
(* evaluation, also after a caller line on which the forbidden term is a   *)
(* token; nor is it in the returned self_referenced list.                  *)
(***************************************************************************)
C11_ForbiddenNeverAllowed ==
    \A c \in Calls :
        /\ self_ref_terms[c] \cap ForbiddenForms = {}
        /\ allowed_terms(self_ref_terms[c]) \cap ForbiddenForms = {}
        /\ pc[c] = "returned"
             => Elems(ret[c][2].self_referenced) \cap ForbiddenForms = {}

\* The caller said the forbidden term on line 1 (and disclosed other terms
\* there); the agent's forbidden term on line 2 was reported.
C11_Witness ==
    /\ Running(1)
    /\ i[1] = 2
    /\ IsCaller(1, 1)
    /\ PHI_TERM \in Elems(word_tokenize(lines[1][1].text))
    /\ self_ref_terms[1] # {}
    /\ IsAgent(1, 2)
    /\ \E v \in ViolationsAt(1, 2) : v.kind = "forbidden"

(***************************************************************************)
(* C12  A non-blank line that starts with neither speaker label changes    *)
(* nothing of the evaluation: the step that passes it leaves               *)
(* self_ref_terms, results (status and violations) and the call's place in *)
(* the loop as they were, and a call returns what it returns for the file  *)
(* in which the text of every such line is replaced by a word outside the  *)
(* taxonomy.                                                               *)
(***************************************************************************)
IsUnlabelled(raw) == raw.label \notin {CALLER_LABEL, AGENT_LABEL} /\ ~IsBlank(raw)

\* The file with the text of its unlabelled lines replaced.
WithoutUnlabelledText(f) ==
    [k \in 1..Len(f) |->
        IF IsUnlabelled(f[k]) THEN Line(f[k].label, <<P(<<"khrap">>)>>) ELSE f[k]]

C12_UnlabelledStep ==
    \A c \in Calls :
        (pc[c] = "loop" /\ i[c] < Len(lines[c]) /\ IsUnlabelled(Current(c)))
        => /\ self_ref_terms'[c] = self_ref_terms[c]
           /\ results'[c] = results[c]
           /\ ret'[c] = ret[c]
           /\ pc'[c] = "loop"

C12_UnlabelledState ==
    \A c \in Calls :
        pc[c] = "returned"
        => ret[c] = Evaluate(WithoutUnlabelledText(file[c]), hash_seed[c])

\* C12: an unlabelled line adds no disclosure, no violation and leaves the
\* status alone, whatever terms it contains.
C12_UnlabelledLineIgnored ==
    []C12_UnlabelledState /\ [][C12_UnlabelledStep]_vars

\* A call returned PASS with no violation after a caller line that disclosed
\* a term and an unlabelled line that holds the forbidden term.
C12_Witness ==
    /\ pc[1] = "returned"
    /\ i[1] = 2
    /\ IsCaller(1, 1)
    /\ self_ref_terms[1] # {}
    /\ IsUnlabelled(lines[1][2])
    /\ ReportsForbidden(1, 2)
    /\ ret[1][1] = 1
    /\ ret[1][2].violations = <<>>

(***************************************************************************)
(* C13  As claimed: at every agent line the allowed set holds nothing but  *)
(* monk address terms and disclosed family terms; a monk self term is      *)
(* never a member, so a monk self term the agent uses is listed in an      *)
(* unapproved-term violation of the line even after the caller disclosed   *)
(* it.  The claim is stated for the monk self terms found on the line.     *)
(***************************************************************************)
\* The occurrence is listed in an unapproved-term violation of line k.
ListedUnapproved(c, k, t) ==
    \E v \in ViolationsAt(c, k) : v.kind = "unapproved" /\ t \in Elems(v.terms)

\* C13 as claimed: a monk self term found on an agent line is not allowed
\* and is listed in an unapproved-term violation of the line.
C13_MonkSelfNeverAllowed ==
    \A c \in Calls :
        JustDidAgent(c) =>
            \A t \in find_terms_in_text(lines[c][i[c]].text) \cap MonkSelfForms :
                /\ t \notin allowed_terms(self_ref_terms[c])
                /\ ListedUnapproved(c, i[c], t)

(***************************************************************************)
(* C13  As amended: at every agent line the allowed set holds only forms   *)
(* (bare or prefixed) of taxonomy terms; a family term or a monk self term *)
(* is a member, bare and prefixed, exactly when the caller has disclosed   *)
(* that term.  An agent occurrence of a monk self term is listed in an     *)
(* unapproved-term violation of its line exactly when the caller had not   *)
(* disclosed that term.                                                    *)
(***************************************************************************)
\* The term of an occurrence: the occurrence without the prefix.
Bare(t) == IF StartsWith(t, PREFIXES[1]) THEN DropPrefix(t, PREFIXES[1]) ELSE t

\* C13 as amended: family and monk self terms are allowed exactly when
\* disclosed; a disclosed monk self term used by the agent is no violation.
C13_DisclosedMonkSelfAllowed ==
    \A c \in Calls :
        JustDidAgent(c) =>
            LET S == self_ref_terms[c]
                A == allowed_terms(S)
            IN  /\ A \subseteq MonkAddressForms \cup FamilyForms \cup MonkSelfForms
                /\ \A t \in FamilyForms \cup MonkSelfForms : t \in A <=> Bare(t) \in S
                /\ \A t \in find_terms_in_text(lines[c][i[c]].text) \cap MonkSelfForms :
                     ListedUnapproved(c, i[c], t) <=> Bare(t) \notin S

\* The caller disclosed a monk self term on line 1; the agent used that term
\* on line 2 and no violation was recorded.
C13_Witness ==
    /\ JustDidAgent(1)
    /\ i[1] = 2
    /\ IsCaller(1, 1)
    /\ \E t \in Elems(MONK_SELF_TERMS) :
         /\ t \in self_ref_terms[1]
         /\ t \in find_terms_in_text(lines[1][2].text)
    /\ Violations(1) = <<>>

(***************************************************************************)
(* C14  Disclosure is not retroactive.  An agent line is judged against    *)
(* what the caller lines strictly before it disclosed: a family term the   *)
(* agent uses on line k (bare or prefixed) is listed in an unapproved-term *)
(* violation of line k exactly when no caller line before k disclosed it,  *)
(* whatever later caller lines disclose; once such a violation is recorded *)
(* the status is FAIL and stays FAIL up to the returned result.            *)
(***************************************************************************)
\* What the caller lines before line k disclose.
DisclosedBefore(c, k) ==
    UNION {SelfReferences(lines[c][j].text) :
             j \in {m \in 1..(k - 1) : IsCaller(c, m)}}

\* A family term the agent used on line k before any caller line disclosed it.
UsedTooEarly(c, k) ==
    /\ IsAgent(c, k)
    /\ \E t \in find_terms_in_text(lines[c][k].text) \cap FamilyForms :
         Bare(t) \notin DisclosedBefore(c, k)

C14_NotRetroactive ==
    \A c \in Calls :
        Running(c) =>
            LET early == \E k \in 1..i[c] : UsedTooEarly(c, k)
            IN  /\ \A k \in 1..i[c] :
                     IsAgent(c, k) =>
                        LET before == DisclosedBefore(c, k)
                        IN  \A t \in find_terms_in_text(lines[c][k].text) \cap FamilyForms :
                                ListedUnapproved(c, k, t) <=> Bare(t) \notin before
                /\ early => results[c].status = "FAIL"
                /\ (pc[c] = "returned" /\ early)
                     => (ret[c][1] = 0 /\ ret[c][2].status = "FAIL")

\* The agent used a family term on line 1, the caller disclosed it on line 2,
\* the agent used it again on line 3: line 1 carries the violation, line 3
\* none, and the call returned FAIL.
C14_Witness ==
    /\ pc[1] = "returned"
    /\ i[1] = 3
    /\ IsAgent(1, 1) /\ IsCaller(1, 2) /\ IsAgent(1, 3)
    /\ \E t \in Elems(FAMILY_TERMS) :
         /\ t \in find_terms_in_text(lines[1][1].text)
         /\ t \in SelfReferences(lines[1][2].text)
         /\ t \in find_terms_in_text(lines[1][3].text)
         /\ ListedUnapproved(1, 1, t)
    /\ ViolationsAt(1, 3) = {}
    /\ ret[1][2].status = "FAIL"

(***************************************************************************)
(* C15  Every agent line processed has at most one unapproved-term entry   *)
(* in the violation list.  The entry exists exactly when some occurrence   *)
(* found on the line is neither a form of the forbidden term nor in the    *)
(* allowed set of the line, and it lists exactly those occurrences, each   *)
(* once.  A forbidden occurrence is listed in the forbidden-term entry     *)
(* only.  A line whose found occurrences are all allowed has no violation. *)
(***************************************************************************)
\* The positions in the violation list of the entries of line k of a kind.
EntriesAt(c, k, kind) ==
    {a \in 1..Len(Violations(c)) :
        Violations(c)[a].line = k /\ Violations(c)[a].kind = kind}

\* The found occurrences of line k that are neither forbidden nor allowed.
NotAllowedAt(c, k) ==
    (find_terms_in_text(lines[c][k].text) \ ForbiddenForms)
    \ allowed_terms(DisclosedBefore(c, k))

C15_OneUnapprovedEntry ==
    \A c \in Calls :
        Running(c) =>
            \A k \in 1..i[c] :
                IsAgent(c, k) =>
                    LET used == find_terms_in_text(lines[c][k].text)
                        notAllowed == NotAllowedAt(c, k)
                        unapproved == EntriesAt(c, k, "unapproved")
                    IN  /\ Cardinality(unapproved) <= 1
                        /\ unapproved # {} <=> notAllowed # {}
                        /\ \A a \in unapproved :
                             /\ Elems(Violations(c)[a].terms) = notAllowed
                             /\ Len(Violations(c)[a].terms) = Cardinality(notAllowed)
                        /\ \A a \in EntriesAt(c, k, "forbidden") :
                             Elems(Violations(c)[a].terms) = used \cap ForbiddenForms
                        /\ (used \cap ForbiddenForms = {} /\ notAllowed = {})
                             => ViolationsAt(c, k) = {}

\* Line 1: the agent used only allowed terms, no violation.  Line 2: the
\* agent used the forbidden term and a term not allowed; the line has one
\* entry of each kind and the unapproved entry does not list the forbidden
\* term.
C15_Witness ==
    /\ Running(1)
    /\ i[1] = 2
    /\ IsAgent(1, 1)
    /\ find_terms_in_text(lines[1][1].text) # {}
    /\ ViolationsAt(1, 1) = {}
    /\ IsAgent(1, 2)
    /\ ReportsForbidden(1, 2)
    /\ Cardinality(EntriesAt(1, 2, "forbidden")) = 1
    /\ Cardinality(EntriesAt(1, 2, "unapproved")) = 1
    /\ Len(Violations(1)) = 2

(***************************************************************************)
(* C16  A prefixed occurrence is decided as its bare term is.  For every   *)
(* taxonomy term t (the forbidden term included) and every prefix p, p+t   *)
(* is in the allowed set exactly when t is.  On every agent line           *)
(* processed, a prefixed occurrence of the forbidden term is listed in a   *)
(* forbidden-term entry of the line, and any other prefixed occurrence is  *)
(* listed in the unapproved-term entry exactly when its bare term is not   *)
(* in the allowed set of the line.  The entries list occurrences in the    *)
(* form in which the line holds them: every listed string is one of the    *)
(* found occurrences.                                                      *)
(***************************************************************************)
\* The occurrence is listed in a forbidden-term violation of line k.
ListedForbidden(c, k, t) ==
    \E v \in ViolationsAt(c, k) : v.kind = "forbidden" /\ t \in Elems(v.terms)

C16_PrefixedAsBare ==
    \A c \in Calls :
        Running(c) =>
            /\ LET allowed == allowed_terms(self_ref_terms[c])
               IN  \A t \in Elems(ALL_TERMS \o <<PHI_TERM>>), p \in Elems(PREFIXES) :
                       (p \o t) \in allowed <=> t \in allowed
            /\ \A k \in 1..i[c] :
                 IsAgent(c, k) =>
                    LET used == find_terms_in_text(lines[c][k].text)
                        allowed == allowed_terms(DisclosedBefore(c, k))
                    IN  /\ \A o \in used \cap Prefixed(Elems(ALL_TERMS \o <<PHI_TERM>>)) :
                             /\ ListedForbidden(c, k, o) <=> Bare(o) = PHI_TERM
                             /\ ListedUnapproved(c, k, o)
                                  <=> (Bare(o) # PHI_TERM /\ Bare(o) \notin allowed)
                        /\ PHI_TERM \in used => ListedForbidden(c, k, PHI_TERM)
                        /\ \A v \in ViolationsAt(c, k) : Elems(v.terms) \subseteq used

\* After the caller disclosed a family term, the agent's prefixed use of it
\* on line 2 was not listed although the line has a violation for another
\* term; the agent's prefixed forbidden term on line 3 was listed, prefixed,
\* in a forbidden-term entry.
C16_Witness ==
    /\ Running(1)
    /\ i[1] = 3
    /\ IsCaller(1, 1)
    /\ IsAgent(1, 2)
    /\ \E t \in self_ref_terms[1] \cap Elems(FAMILY_TERMS) :
         /\ (PREFIXES[1] \o t) \in find_terms_in_text(lines[1][2].text)
         /\ t \notin find_terms_in_text(lines[1][2].text)
         /\ ~ListedUnapproved(1, 2, PREFIXES[1] \o t)
    /\ ViolationsAt(1, 2) # {}
    /\ IsAgent(1, 3)
    /\ ListedForbidden(1, 3, PREFIXES[1] \o PHI_TERM)
    /\ ~ListedForbidden(1, 3, PHI_TERM)

(***************************************************************************)
(* C17  Negation rule.  For a term that is not a monk self term, a caller  *)
(* line discloses the term exactly when the term is one of the utterance's *)
(* tokens and the raw text nowhere holds the negation marker directly      *)
(* followed by the term: the negated pattern cancels the match even when   *)
(* the term is also a token elsewhere in the utterance.  So such a term is *)
(* in self_ref_terms exactly when some caller line processed so far has it *)
(* as a token and does not hold its negated pattern.                       *)
(***************************************************************************)
\* The raw text of line k holds the negation marker directly before the term.
NegatedOn(c, k, term) == IsSubstring(NEGATION \o term, Raw(lines[c][k].text))

\* The term is one of the tokens of line k.
TokenOn(c, k, term) == term \in Elems(word_tokenize(lines[c][k].text))

C17_NegationRule ==
    \A c \in Calls :
        Running(c) =>
            \A term \in Elems(ALL_TERMS) \ Elems(MONK_SELF_TERMS) :
                /\ \A k \in 1..i[c] :
                     IsCaller(c, k) =>
                        /\ NegatedOn(c, k, term)
                             => ~is_self_reference(term, lines[c][k].text)
                        /\ ~NegatedOn(c, k, term)
                             => (is_self_reference(term, lines[c][k].text)
                                 <=> TokenOn(c, k, term))
                /\ term \in self_ref_terms[c]
                     <=> \E k \in 1..i[c] :
                            IsCaller(c, k) /\ TokenOn(c, k, term) /\ ~NegatedOn(c, k, term)

\* The caller's only line has a family term as a token and also its negated
\* pattern: nothing was disclosed, and the agent's use of the term on line 2
\* was reported.
C17_Witness ==
    /\ Running(1)
    /\ i[1] = 2
    /\ IsCaller(1, 1)
    /\ TokenOn(1, 1, FAMILY_TERMS[1])
    /\ NegatedOn(1, 1, FAMILY_TERMS[1])
    /\ self_ref_terms[1] = {}
    /\ IsAgent(1, 2)
    /\ ListedUnapproved(1, 2, FAMILY_TERMS[1])

(***************************************************************************)
(* C18  Monk self terms.  A caller line discloses a monk self term exactly *)
(* when the term occurs somewhere in the raw text of the utterance,        *)
(* whether or not it is a token and whether or not the negation marker     *)
(* stands directly before it.  So a monk self term is in self_ref_terms    *)
(* exactly when the raw text of some caller line processed so far holds    *)
(* it, and from then on every monk address term is allowed.                *)
(***************************************************************************)
\* The raw text of line k holds the term.
OccursOn(c, k, term) == IsSubstring(term, Raw(lines[c][k].text))

C18_MonkSelfAnywhere ==
    \A c \in Calls :
        Running(c) =>
            \A term \in Elems(MONK_SELF_TERMS) :
                /\ \A k \in 1..i[c] :
                     IsCaller(c, k) =>
                        (is_self_reference(term, lines[c][k].text) <=> OccursOn(c, k, term))
                /\ term \in self_ref_terms[c]
                     <=> \E k \in 1..i[c] : IsCaller(c, k) /\ OccursOn(c, k, term)
                /\ term \in self_ref_terms[c]
                     => MonkAddressForms \subseteq allowed_terms(self_ref_terms[c])

\* The caller's only line holds a monk self term that is no token of the
\* utterance and follows the negation marker: the term was disclosed and the
\* agent's phra-khun-chao on line 2 was not reported.
C18_Witness ==
    /\ Running(1)
    /\ i[1] = 2
    /\ IsCaller(1, 1)
    /\ \E term \in Elems(MONK_SELF_TERMS) :
         /\ ~TokenOn(1, 1, term)
         /\ NegatedOn(1, 1, term)
         /\ term \in self_ref_terms[1]
    /\ IsAgent(1, 2)
    /\ MONK_TERMS[2] \in find_terms_in_text(lines[1][2].text)
    /\ ~ListedUnapproved(1, 2, MONK_TERMS[2])

(***************************************************************************)
(* C19  Line numbers.  The number carried by a violation is the position   *)
(* of the offending agent line among the non-blank lines of the file,      *)
(* counted from 1: blank lines are not counted, caller lines and lines     *)
(* with neither label are.  Every violation carries the number of an agent *)
(* line of the file, and every agent line of the file already processed    *)
(* that offends has its violations under its own number.                   *)
(***************************************************************************)
\* The number of non-blank lines among the first p lines of the file.
NonBlankUpTo(f, p) == Cardinality({q \in 1..p : ~IsBlank(f[q])})

\* The agent line at position p of the file holds a forbidden occurrence or
\* one not allowed by what the caller lines of the file before it disclose.
OffendsInFile(f, p) ==
    LET used == find_terms_in_text(f[p].text)
        before == UNION {SelfReferences(f[q].text) :
                           q \in {r \in 1..(p - 1) : f[r].label = CALLER_LABEL}}
    IN  \/ used \cap ForbiddenForms # {}
        \/ ~(used \subseteq allowed_terms(before))

C19_LineNumbers ==
    \A c \in Calls :
        Running(c) =>
            LET offending == {p \in 1..Len(file[c]) :
                                file[c][p].label = AGENT_LABEL /\ OffendsInFile(file[c], p)}
                numbers == {NonBlankUpTo(file[c], p) : p \in offending}
            IN  /\ \A v \in Elems(Violations(c)) : v.line \in numbers
                /\ \A n \in numbers : n <= i[c] => ViolationsAt(c, n) # {}

\* The file is a blank line, a line that is not an agent line, and an
\* offending agent line: the violation carries the number 2.
C19_Witness ==
    /\ Running(1)
    /\ Len(file[1]) = 3
    /\ IsBlank(file[1][1])
    /\ ~IsBlank(file[1][2])
    /\ file[1][2].label # AGENT_LABEL
    /\ file[1][3].label = AGENT_LABEL
    /\ i[1] = 2
    /\ Violations(1) # <<>>
    /\ \A v \in Elems(Violations(1)) : v.line = 2

(***************************************************************************)
(* C20  As claimed: tone_analysis decides PASS only when 4 or more         *)
(* criteria pass: final_pass is true exactly when the number of acoustic   *)
(* criteria passed plus twang_score is at least the number the printed     *)
(* result line names, and the printed verdict is PASS exactly then.        *)
(***************************************************************************)
C20_FourOrMore ==
    /\ tone.pc \in {"decided", "printed"}
         => (tone.final_pass <=> tone.num_criteria_passed + tone.twang_score >= 4)
    /\ tone.pc = "printed"
         => (tone.final_result = "PASS" <=> tone.total_passed >= tone.must_pass)


=============================================================================
